---- MODULE Spec2Model ----
(***************************************************************************)
(* Model of the SpotlightOnboarding class (guida.js): the step sequencer,  *)
(* its timers, the persisted completion flag and the DOM nodes and         *)
(* listeners it creates.  Every handler of the class is one operator over  *)
(* a "world" record (this.state, the document, window, localStorage, the   *)
(* pending timers and the events emitted by the running handler); every    *)
(* public call, timer callback and DOM event is one action.                *)
(***************************************************************************)
EXTENDS Integers, Sequences, FiniteSets, TLC

VARIABLES
    config,        \* this.config, resolved by mergeConfig
    state,         \* this.state (OnboardingState)
    document,      \* nodes, classes and click listeners in the document
    window,        \* listeners registered on window / document
    localStorage,  \* the key-value store
    timers,        \* pending setTimeout callbacks, in scheduling order
    emitted,       \* events and callbacks fired by the last handler
    op,            \* the handler that ran last, and what it found
    eventListeners, \* this.eventListeners: the registrations of each event, in order
    invoked        \* the listener calls made by the last handler, in order

vars == <<config, state, document, window, localStorage, timers, emitted, op,
          eventListeners, invoked>>

----------------------------------------------------------------------------
(* Bounds of the model *)

MaxSteps == 2
MaxTimers == 2
\* nextStep() never clamps the index: it is followed one past the end of the list
MaxIndex == MaxSteps + 1
\* every click listener that fires schedules one timer
MaxListeners == MaxTimers
\* registrations of one event
MaxRegistrations == 3

----------------------------------------------------------------------------
(* Values *)

NoValue == -1
DefaultStorageKey == "guida-js-completed"
DefaultStartDelay == 1000
DefaultBorderRadius == 8
DefaultPadding == 8
TooltipWidth == 320
\* the gap between target and tooltip, and between tooltip and viewport edge
TooltipMargin == 20
SettleDelay == 300
ClickDelay == 500
CleanupDelay == 3000
RestartDelay == 500

Targets == {"#a", "#b"}
\* keyof OnboardingEvents
EventNames == {"start", "complete", "close", "stepChange", "stepNavigation"}
\* the callbacks a page registers
Handlers == {1, 2}
\* the elements of the document: with and without the target of the click step
Documents == { Targets, {"#a"} }
StorageKeys == {DefaultStorageKey, "tour"}

\* an OnboardingStep; radius and padding are step.spotlight?.borderRadius and
\* step.spotlight?.padding (NoValue: absent)
FullStep(t, a, h, s, r, p, pos) ==
    [target |-> t, action |-> a, highlight |-> h, skipable |-> s, radius |-> r,
     padding |-> p, position |-> pos]

\* a step with no padding of its own, placed below its target
Step(t, a, h, s, r) == FullStep(t, a, h, s, r, NoValue, "bottom")

NoStep == Step("", "", FALSE, FALSE, NoValue)

StepPool ==
    { Step("#a", "observe", TRUE, FALSE, NoValue),
      Step("#b", "click", TRUE, TRUE, 0) }

StepLists == UNION { [1..n -> StepPool] : n \in 0..MaxSteps }

\* a DOMRect, and the rect and layout of the page the tour runs on by default
Rect(t, l, r, b) == [top |-> t, left |-> l, right |-> r, bottom |-> b]
PageRect == Rect(100, 100, 200, 140)
PageViewport == [innerWidth |-> 1000, innerHeight |-> 800]
PageTooltipHeight == 200

\* the cut-out of the polygon clip-path, and the rect of the svg mask
NoCutout == [x1 |-> NoValue, y1 |-> NoValue, x2 |-> NoValue, y2 |-> NoValue]
NoMask == [x |-> NoValue, y |-> NoValue, width |-> NoValue, height |-> NoValue,
           rx |-> NoValue]

\* the overlay node with its backdrop: the backdrop's clip-path ("", "none" or
\* "polygon" with its cut-out) and its svg child with the mask's rect
Overlay(e, c, p, v, m) == [exists |-> e, clipPath |-> c, polygon |-> p, svg |-> v, mask |-> m]

NullOverlay == Overlay(FALSE, "", NoCutout, FALSE, NoMask)
\* a tooltip node: its guida-visible class, what its innerHTML shows and its
\* style.left and style.top
Tooltip(v, k, i, s, p, n, sk, c) ==
    [exists |-> TRUE, visible |-> v, kind |-> k, index |-> i, step |-> s,
     prev |-> p, next |-> n, skip |-> sk, close |-> c, left |-> NoValue, top |-> NoValue]

\* the tooltip of a step, at its place
StepTooltipAt(i, s, p, n, sk, left, top) ==
    [exists |-> TRUE, visible |-> TRUE, kind |-> "step", index |-> i, step |-> s,
     prev |-> p, next |-> n, skip |-> sk, close |-> TRUE, left |-> left, top |-> top]

NullTooltip == [Tooltip(FALSE, "", 0, NoStep, FALSE, FALSE, FALSE, FALSE)
                  EXCEPT !.exists = FALSE]

Event(n, d, f, t, s) == [name |-> n, dir |-> d, fromStep |-> f, toStep |-> t, step |-> s]
Plain(n) == Event(n, "", NoValue, NoValue, NoStep)

Timer(k, d) == [kind |-> k, delay |-> d]

\* a handler run: its name, the kind of timer it is the callback of, its argument,
\* and isActive, currentStep and the number of pending timers when it began
Op(n, k, a) == [name |-> n, kind |-> k, arg |-> a, active |-> state.isActive,
                index |-> state.currentStep, pending |-> Len(timers)]

\* this.config.steps[i], undefined (NoStep) outside the list
StepAt(w, i) ==
    IF i >= 0 /\ i < Len(w.config.steps) THEN w.config.steps[i + 1] ELSE NoStep

World == [config |-> config, state |-> state, document |-> document,
          window |-> window, localStorage |-> localStorage, timers |-> timers,
          emitted |-> <<>>, eventListeners |-> eventListeners, invoked |-> <<>>]

----------------------------------------------------------------------------
(* Helpers of the handlers *)

\* listeners.forEach(callback => callback(data)): the calls of one emit
Calls(listeners, event) ==
    [i \in 1..Len(listeners[event]) |-> [event |-> event, handler |-> listeners[event][i]]]

\* faulty variant: the handlers are called from the last registered to the first
emit_lastFirst(w, e) ==
    IF e.name \in DOMAIN w.eventListeners /\ w.eventListeners[e.name] # <<>>
    THEN LET l == w.eventListeners[e.name]
         IN [w EXCEPT !.emitted = Append(@, e),
                      !.invoked = @ \o [i \in 1..Len(l) |->
                                          [event |-> e.name, handler |-> l[Len(l) + 1 - i]]]]
    ELSE [w EXCEPT !.emitted = Append(@, e)]

\* emit(event, data), and config.callbacks.onX(...) under the name "onX"
emit(w, e) ==
    IF e.name \in DOMAIN w.eventListeners /\ w.eventListeners[e.name] # <<>>
    THEN [w EXCEPT !.emitted = Append(@, e),
                   !.invoked = @ \o Calls(w.eventListeners, e.name)]
    ELSE [w EXCEPT !.emitted = Append(@, e)]

on(w, event, callback) == [w EXCEPT !.eventListeners[event] = Append(@, callback)]

\* listeners.indexOf(callback), counted from 0
indexOf(listeners, callback) ==
    IF \E i \in 1..Len(listeners) : listeners[i] = callback
    THEN (CHOOSE i \in 1..Len(listeners) :
              /\ listeners[i] = callback
              /\ \A j \in 1..(i - 1) : listeners[j] # callback) - 1
    ELSE -1

\* listeners.splice(index, 1)
splice(listeners, index) ==
    SubSeq(listeners, 1, index) \o SubSeq(listeners, index + 2, Len(listeners))

\* faulty variant: every registration of the handler is removed
off_all(w, event, callback) ==
    [w EXCEPT !.eventListeners[event] = SelectSeq(@, LAMBDA h : h # callback)]

off(w, event, callback) ==
    LET listeners == w.eventListeners[event]
        index == indexOf(listeners, callback)
    IN IF index > -1
       THEN [w EXCEPT !.eventListeners[event] = splice(listeners, index)]
       ELSE w

setTimeout(w, k, d) == [w EXCEPT !.timers = Append(@, Timer(k, d))]

\* localStorage.getItem(storageKey) === 'true'
isCompletedIn(store, key) == store[key] = "true"

isCompleted(w) == isCompletedIn(w.localStorage, w.config.storageKey)

mergeStorageKey(k) == IF k = "" THEN DefaultStorageKey ELSE k

mergeConfig(c) ==
    [steps |-> c.steps,
     storageKey |-> mergeStorageKey(c.storageKey),
     autoStart |-> IF c.autoStart = "undefined" THEN TRUE ELSE c.autoStart = "true",
     startDelay |-> IF c.startDelay = NoValue THEN DefaultStartDelay ELSE c.startDelay,
     borderRadius |-> IF c.borderRadius = NoValue THEN DefaultBorderRadius ELSE c.borderRadius,
     padding |-> IF c.padding = NoValue THEN DefaultPadding ELSE c.padding]

\* faulty variant: the flag is written under the default key, whatever the configuration
markAsCompleted_defaultKey(w) ==
    [w EXCEPT !.state.isCompleted = TRUE,
              !.localStorage[DefaultStorageKey] = "true"]

markAsCompleted(w) ==
    [w EXCEPT !.state.isCompleted = TRUE,
              !.localStorage[w.config.storageKey] = "true"]

hideTooltip(w) ==
    IF w.state.tooltip.exists
    THEN [w EXCEPT !.state.tooltip.visible = FALSE]
    ELSE w

clearHighlights(w) ==
    LET w1 == [w EXCEPT !.document.highlight = {}]
    IN IF w1.state.overlay.exists
       THEN [w1 EXCEPT !.state.overlay.clipPath = "none", !.state.overlay.polygon = NoCutout]
       ELSE w1

showCompletionMessage(w) ==
    IF w.state.tooltip.exists
    THEN [w EXCEPT !.state.tooltip =
            [Tooltip(TRUE, "completion", 0, NoStep, FALSE, FALSE, FALSE, FALSE)
                EXCEPT !.left = w.state.tooltip.left, !.top = w.state.tooltip.top]]
    ELSE w

\* faulty variant: the tooltip node is left in the document
cleanup_keepsTooltip(w) ==
    LET w1 == clearHighlights([w EXCEPT !.state.isActive = FALSE])
        w2 == IF w1.state.resizeHandler
              THEN [w1 EXCEPT !.window.resize = @ - 1, !.state.resizeHandler = FALSE]
              ELSE w1
        w3 == IF w2.state.scrollHandler
              THEN [w2 EXCEPT !.window.scroll = @ - 1, !.window.documentScroll = @ - 1,
                              !.state.scrollHandler = FALSE]
              ELSE w2
        w4 == IF w3.state.overlay.exists
              THEN [w3 EXCEPT !.document.overlays = @ - 1, !.state.overlay = NullOverlay]
              ELSE w3
    IN [w4 EXCEPT !.state.currentHighlightedElement = "null",
                  !.state.currentStepConfig = NoStep]

\* faulty variant: the scroll handler stays registered on document
cleanup_leaksDocumentScroll(w) ==
    LET w1 == clearHighlights([w EXCEPT !.state.isActive = FALSE])
        w2 == IF w1.state.resizeHandler
              THEN [w1 EXCEPT !.window.resize = @ - 1, !.state.resizeHandler = FALSE]
              ELSE w1
        w3 == IF w2.state.scrollHandler
              THEN [w2 EXCEPT !.window.scroll = @ - 1, !.state.scrollHandler = FALSE]
              ELSE w2
        w4 == IF w3.state.overlay.exists
              THEN [w3 EXCEPT !.document.overlays = @ - 1, !.state.overlay = NullOverlay]
              ELSE w3
        w5 == IF w4.state.tooltip.exists
              THEN [w4 EXCEPT !.document.tooltips = @ - 1, !.state.tooltip = NullTooltip]
              ELSE w4
    IN [w5 EXCEPT !.state.currentHighlightedElement = "null",
                  !.state.currentStepConfig = NoStep]

cleanup(w) ==
    LET w1 == clearHighlights([w EXCEPT !.state.isActive = FALSE])
        w2 == IF w1.state.resizeHandler
              THEN [w1 EXCEPT !.window.resize = @ - 1, !.state.resizeHandler = FALSE]
              ELSE w1
        w3 == IF w2.state.scrollHandler
              THEN [w2 EXCEPT !.window.scroll = @ - 1, !.window.documentScroll = @ - 1,
                              !.state.scrollHandler = FALSE]
              ELSE w2
        w4 == IF w3.state.overlay.exists
              THEN [w3 EXCEPT !.document.overlays = @ - 1, !.state.overlay = NullOverlay]
              ELSE w3
        w5 == IF w4.state.tooltip.exists
              THEN [w4 EXCEPT !.document.tooltips = @ - 1, !.state.tooltip = NullTooltip]
              ELSE w4
    IN [w5 EXCEPT !.state.currentHighlightedElement = "null",
                  !.state.currentStepConfig = NoStep]

\* faulty variant: the live tour is torn down with the flag
reset_withCleanup(w) ==
    cleanup([w EXCEPT !.localStorage[w.config.storageKey] = "null",
                      !.state.isCompleted = FALSE])

reset(w) ==
    [w EXCEPT !.localStorage[w.config.storageKey] = "null",
              !.state.isCompleted = FALSE]

\* faulty variant: the teardown after the completion message is never scheduled
complete_noCleanup(w) ==
    LET w1 == markAsCompleted(showCompletionMessage(clearHighlights(w)))
    IN emit(emit(w1, Plain("complete")), Plain("onComplete"))

complete(w) ==
    LET w1 == markAsCompleted(showCompletionMessage(clearHighlights(w)))
        w2 == emit(emit(w1, Plain("complete")), Plain("onComplete"))
    IN setTimeout(w2, "cleanup", CleanupDelay)

\* faulty variant: the teardown is left to a timer
close_deferred(w) ==
    LET w1 == markAsCompleted(w)
        w2 == emit(emit(w1, Plain("close")), Plain("onClose"))
    IN setTimeout(w2, "cleanup", SettleDelay)

close(w) ==
    LET w1 == markAsCompleted(w)
        w2 == emit(emit(w1, Plain("close")), Plain("onClose"))
    IN cleanup(w2)

\* faulty variant: the index is clamped to the last step
nextStep_clamped(w) ==
    LET cur == StepAt(w, w.state.currentStep)
        last == Len(w.config.steps) - 1
        w1 == hideTooltip([w EXCEPT !.state.currentStep = IF @ + 1 > last THEN @ ELSE @ + 1])
        w2 == emit(w1, Event("stepNavigation", "next", w1.state.currentStep - 1,
                             w1.state.currentStep, cur))
    IN setTimeout(w2, "settle", SettleDelay)

\* faulty variant: a navigation call replaces the settle timers still pending
nextStep_debounced(w) ==
    LET cur == StepAt(w, w.state.currentStep)
        w1 == hideTooltip([w EXCEPT !.state.currentStep = @ + 1])
        w2 == emit(w1, Event("stepNavigation", "next", w1.state.currentStep - 1,
                             w1.state.currentStep, cur))
    IN setTimeout([w2 EXCEPT !.timers = SelectSeq(@, LAMBDA t : t.kind # "settle")],
                  "settle", SettleDelay)

nextStep(w) ==
    LET cur == StepAt(w, w.state.currentStep)
        w1 == hideTooltip([w EXCEPT !.state.currentStep = @ + 1])
        w2 == emit(w1, Event("stepNavigation", "next", w1.state.currentStep - 1,
                             w1.state.currentStep, cur))
    IN setTimeout(w2, "settle", SettleDelay)

\* faulty variant: the guard lets index 0 through
previousStep_fromZero(w) ==
    IF w.state.currentStep >= 0
    THEN LET cur == StepAt(w, w.state.currentStep)
             w1 == hideTooltip([w EXCEPT !.state.currentStep = @ - 1])
             w2 == emit(w1, Event("stepNavigation", "previous", w1.state.currentStep + 1,
                                  w1.state.currentStep, cur))
         IN setTimeout(w2, "settle", SettleDelay)
    ELSE w

previousStep(w) ==
    IF w.state.currentStep > 0
    THEN LET cur == StepAt(w, w.state.currentStep)
             w1 == hideTooltip([w EXCEPT !.state.currentStep = @ - 1])
             w2 == emit(w1, Event("stepNavigation", "previous", w1.state.currentStep + 1,
                                  w1.state.currentStep, cur))
         IN setTimeout(w2, "settle", SettleDelay)
    ELSE w

\* faulty variant: the upper bound is inclusive
goToStep_inclusive(w, stepIndex) ==
    IF stepIndex >= 0 /\ stepIndex <= Len(w.config.steps)
    THEN setTimeout(hideTooltip([w EXCEPT !.state.currentStep = stepIndex]),
                    "settle", SettleDelay)
    ELSE w

goToStep(w, stepIndex) ==
    IF stepIndex >= 0 /\ stepIndex < Len(w.config.steps)
    THEN setTimeout(hideTooltip([w EXCEPT !.state.currentStep = stepIndex]),
                    "settle", SettleDelay)
    ELSE w

Max(a, b) == IF a >= b THEN a ELSE b
Min(a, b) == IF a <= b THEN a ELSE b
\* n / 2; every length of the model is even
Half(n) == n \div 2

\* Math.min(width / 2, height / 2, borderRadius)
maxRadius(x1, y1, x2, y2, borderRadius) ==
    Min(Min(Half(x2 - x1), Half(y2 - y1)), borderRadius)

createRoundedSpotlight(w, x1, y1, x2, y2, borderRadius) ==
    [w EXCEPT !.state.overlay.clipPath = "none",
              !.state.overlay.polygon = NoCutout,
              !.state.overlay.svg = TRUE,
              !.state.overlay.mask =
                  [x |-> x1, y |-> y1, width |-> x2 - x1, height |-> y2 - y1,
                   rx |-> maxRadius(x1, y1, x2, y2, borderRadius)]]

\* faulty variant: the padded rect is not clamped to the viewport
computeCutout_unclamped(rect, padding, innerWidth, innerHeight) ==
    [x1 |-> rect.left - padding,
     y1 |-> rect.top - padding,
     x2 |-> rect.right + padding,
     y2 |-> rect.bottom + padding]

\* x1, y1, x2, y2 of updateClipPath
computeCutout(rect, padding, innerWidth, innerHeight) ==
    [x1 |-> Max(0, rect.left - padding),
     y1 |-> Max(0, rect.top - padding),
     x2 |-> Min(innerWidth, rect.right + padding),
     y2 |-> Min(innerHeight, rect.bottom + padding)]

\* faulty variant: a radius of 0 on the step counts as absent
effectiveRadius_zeroIsAbsent(c, step) ==
    IF step.radius # NoValue /\ step.radius # 0 THEN step.radius ELSE c.borderRadius

\* stepSpotlight?.borderRadius ?? globalSpotlight.borderRadius, and the padding
effectiveRadius(c, step) == IF step.radius # NoValue THEN step.radius ELSE c.borderRadius
effectivePadding(c, step) == IF step.padding # NoValue THEN step.padding ELSE c.padding

\* the backdrop is the child of state.overlay
updateClipPath(w, element, step) ==
    LET rect == w.document.rects[element]
        borderRadius == effectiveRadius(w.config, step)
        padding == effectivePadding(w.config, step)
        c == computeCutout(rect, padding, w.window.innerWidth, w.window.innerHeight)
    IN IF borderRadius > 0
       THEN createRoundedSpotlight(w, c.x1, c.y1, c.x2, c.y2, borderRadius)
       ELSE [w EXCEPT !.state.overlay.svg = FALSE,
                      !.state.overlay.mask = NoMask,
                      !.state.overlay.clipPath = "polygon",
                      !.state.overlay.polygon = c]

highlightElement(w, element, shouldHighlight, step) ==
    LET backdrop == w.state.overlay.exists
        w1 == [w EXCEPT !.document.highlight = {},
                        !.state.currentHighlightedElement =
                            IF shouldHighlight THEN element ELSE "null"]
    IN IF shouldHighlight /\ backdrop
       THEN updateClipPath([w1 EXCEPT !.document.highlight = {element}], element, step)
       ELSE IF backdrop
            THEN [w1 EXCEPT !.state.overlay.clipPath = "none",
                            !.state.overlay.polygon = NoCutout]
            ELSE w1

\* faulty variant: the tooltip is aligned with the target's edge, not centred
placeTooltip_notCentred(rect, position, tooltipHeight) ==
    CASE position = "top" ->
             [left |-> rect.left, top |-> rect.top - tooltipHeight - TooltipMargin]
      [] position = "bottom" ->
             [left |-> rect.left, top |-> rect.bottom + TooltipMargin]
      [] position = "left" ->
             [left |-> rect.left - TooltipWidth - TooltipMargin, top |-> rect.top]
      [] OTHER ->
             [left |-> rect.right + TooltipMargin, top |-> rect.top]

\* left and top of the tooltip before they are kept within the viewport
placeTooltip(rect, position, tooltipHeight) ==
    LET width == rect.right - rect.left
        height == rect.bottom - rect.top
    IN CASE position = "top" ->
               [left |-> rect.left + Half(width) - Half(TooltipWidth),
                top |-> rect.top - tooltipHeight - TooltipMargin]
         [] position = "bottom" ->
               [left |-> rect.left + Half(width) - Half(TooltipWidth),
                top |-> rect.bottom + TooltipMargin]
         [] position = "left" ->
               [left |-> rect.left - TooltipWidth - TooltipMargin,
                top |-> rect.top + Half(height) - Half(tooltipHeight)]
         [] position = "right" ->
               [left |-> rect.right + TooltipMargin,
                top |-> rect.top + Half(height) - Half(tooltipHeight)]
         [] OTHER ->
               [left |-> rect.right + TooltipMargin,
                top |-> rect.top]

\* faulty variant: only the lower edge of the range is enforced
clampTooltip_lowOnly(p, tooltipHeight, innerWidth, innerHeight) ==
    [left |-> Max(TooltipMargin, p.left),
     top |-> Max(TooltipMargin, p.top)]

\* Math.max(20, Math.min(left, window.innerWidth - tooltipWidth - 20)), and top
clampTooltip(p, tooltipHeight, innerWidth, innerHeight) ==
    [left |-> Max(TooltipMargin, Min(p.left, innerWidth - TooltipWidth - TooltipMargin)),
     top |-> Max(TooltipMargin, Min(p.top, innerHeight - tooltipHeight - TooltipMargin))]

showTooltip(w, target, step) ==
    IF ~w.state.tooltip.exists THEN w
    ELSE LET isFirstStep == w.state.currentStep = 0
             isLastStep == w.state.currentStep = Len(w.config.steps) - 1
             tooltipHeight == w.document.tooltipHeight
             p == clampTooltip(placeTooltip(w.document.rects[target], step.position,
                                            tooltipHeight),
                               tooltipHeight, w.window.innerWidth, w.window.innerHeight)
         IN [w EXCEPT !.state.tooltip =
                StepTooltipAt(w.state.currentStep, step,
                              ~isFirstStep,
                              step.action = "observe" /\ ~isLastStep,
                              step.skipable,
                              p.left, p.top)]

\* faulty variant: no step gets a click listener
setupStepInteraction_never(w, step) == w

setupStepInteraction(w, step) ==
    IF step.action = "click"
    THEN [w EXCEPT !.document.listeners[step.target] = @ + 1]
    ELSE w

\* faulty variant: the step change is announced before the target is looked up
showStep_emitFirst(w, stepIndex) ==
    IF stepIndex >= Len(w.config.steps)
    THEN complete(w)
    ELSE LET step == w.config.steps[stepIndex + 1]
             w1 == [w EXCEPT !.state.currentStepConfig = step]
             w2 == emit(emit(w1, Event("stepChange", "", NoValue, stepIndex, step)),
                        Event("onStepChange", "", NoValue, stepIndex, step))
         IN IF step.target \notin w1.document.elements
            THEN nextStep(w2)
            ELSE setupStepInteraction(
                     showTooltip(highlightElement(w2, step.target, step.highlight, step),
                                 step.target, step),
                     step)

\* faulty variant: the step is announced by its one-based number
showStep_oneBased(w, stepIndex) ==
    IF stepIndex >= Len(w.config.steps)
    THEN complete(w)
    ELSE LET step == w.config.steps[stepIndex + 1]
             w1 == [w EXCEPT !.state.currentStepConfig = step]
         IN IF step.target \notin w1.document.elements
            THEN nextStep(w1)
            ELSE LET w2 == emit(emit(w1, Event("stepChange", "", NoValue, stepIndex + 1, step)),
                                Event("onStepChange", "", NoValue, stepIndex + 1, step))
                     w3 == highlightElement(w2, step.target, step.highlight, step)
                     w4 == showTooltip(w3, step.target, step)
                 IN setupStepInteraction(w4, step)

\* faulty variant: a step whose target is missing is not skipped
showStep_stallsOnMissing(w, stepIndex) ==
    IF stepIndex >= Len(w.config.steps)
    THEN complete(w)
    ELSE LET step == w.config.steps[stepIndex + 1]
             w1 == [w EXCEPT !.state.currentStepConfig = step]
         IN IF step.target \notin w1.document.elements
            THEN w1
            ELSE LET w2 == emit(emit(w1, Event("stepChange", "", NoValue, stepIndex, step)),
                                Event("onStepChange", "", NoValue, stepIndex, step))
                     w3 == highlightElement(w2, step.target, step.highlight, step)
                     w4 == showTooltip(w3, step.target, step)
                 IN setupStepInteraction(w4, step)

showStep(w, stepIndex) ==
    IF stepIndex >= Len(w.config.steps)
    THEN complete(w)
    ELSE LET step == w.config.steps[stepIndex + 1]
             w1 == [w EXCEPT !.state.currentStepConfig = step]
         IN IF step.target \notin w1.document.elements
            THEN nextStep(w1)
            ELSE LET w2 == emit(emit(w1, Event("stepChange", "", NoValue, stepIndex, step)),
                                Event("onStepChange", "", NoValue, stepIndex, step))
                     w3 == highlightElement(w2, step.target, step.highlight, step)
                     w4 == showTooltip(w3, step.target, step)
                 IN setupStepInteraction(w4, step)

createOverlay(w) ==
    [w EXCEPT !.state.overlay = Overlay(TRUE, "", NoCutout, FALSE, NoMask),
              !.state.tooltip = Tooltip(FALSE, "empty", 0, NoStep, FALSE, FALSE, FALSE, FALSE),
              !.document.overlays = @ + 1,
              !.document.tooltips = @ + 1]

setupResizeHandler(w) ==
    [w EXCEPT !.state.resizeHandler = TRUE, !.state.scrollHandler = TRUE,
              !.window.resize = @ + 1, !.window.scroll = @ + 1,
              !.window.documentScroll = @ + 1]

\* faulty variant: the index of an earlier run is kept
start_keepsIndex(w) ==
    IF w.state.isActive \/ Len(w.config.steps) = 0
    THEN w
    ELSE LET w1 == [w EXCEPT !.state.isActive = TRUE]
             w2 == showStep(setupResizeHandler(createOverlay(w1)), w1.state.currentStep)
         IN emit(emit(w2, Plain("start")), Plain("onStart"))

\* faulty variant: an active tour is started again
start_whileActive(w) ==
    IF Len(w.config.steps) = 0
    THEN w
    ELSE LET w1 == [w EXCEPT !.state.isActive = TRUE, !.state.currentStep = 0]
             w2 == showStep(setupResizeHandler(createOverlay(w1)), w1.state.currentStep)
         IN emit(emit(w2, Plain("start")), Plain("onStart"))

\* faulty variant: an empty step list is started
start_emptyList(w) ==
    IF w.state.isActive
    THEN w
    ELSE LET w1 == [w EXCEPT !.state.isActive = TRUE, !.state.currentStep = 0]
             w2 == showStep(setupResizeHandler(createOverlay(w1)), w1.state.currentStep)
         IN emit(emit(w2, Plain("start")), Plain("onStart"))

start(w) ==
    IF w.state.isActive \/ Len(w.config.steps) = 0
    THEN w
    ELSE LET w1 == [w EXCEPT !.state.isActive = TRUE, !.state.currentStep = 0]
             w2 == showStep(setupResizeHandler(createOverlay(w1)), w1.state.currentStep)
         IN emit(emit(w2, Plain("start")), Plain("onStart"))

restart(w) == setTimeout(cleanup(reset(w)), "restart", RestartDelay)

\* the body of state.resizeHandler and of state.scrollHandler
resizeHandler(w) ==
    IF w.state.currentHighlightedElement # "null" /\ w.state.overlay.exists
       /\ w.state.currentStepConfig # NoStep
    THEN showTooltip(updateClipPath(w, w.state.currentHighlightedElement,
                                    w.state.currentStepConfig),
                     w.state.currentHighlightedElement, w.state.currentStepConfig)
    ELSE w

\* faulty variant: the listeners stay attached after they have fired
RECURSIVE handleClick_keepsListener(_, _, _)
handleClick_keepsListener(w, target, n) ==
    IF n = 0 THEN w
    ELSE handleClick_keepsListener(setTimeout(w, "click", ClickDelay), target, n - 1)

\* the handleClick listeners of a target: each detaches itself and schedules nextStep
RECURSIVE handleClick(_, _, _)
handleClick(w, target, n) ==
    IF n = 0 THEN w
    ELSE handleClick(setTimeout([w EXCEPT !.document.listeners[target] = @ - 1],
                                "click", ClickDelay), target, n - 1)

\* the callback of a pending timer
timerCallback(w, kind) ==
    CASE kind = "autostart" -> start(w)
      [] kind = "restart" -> start(w)
      [] kind = "settle" -> showStep(w, w.state.currentStep)
      [] kind = "click" -> nextStep(w)
      [] kind = "cleanup" -> cleanup(w)

getCurrentStep == [index |-> state.currentStep,
                   step |-> StepAt([config |-> config], state.currentStep)]

isActive == state.isActive

----------------------------------------------------------------------------
(* The state after construction *)

\* the constructor's argument: an explicit configuration (own storage key,
\* autoStart: false) or the quick-start one (every option left to its default)
Explicit == [storageKey |-> "tour", autoStart |-> "false"]
QuickStart == [storageKey |-> "", autoStart |-> "undefined"]

RawConfigs(o) ==
    { [steps |-> s, storageKey |-> o.storageKey, autoStart |-> o.autoStart,
       startDelay |-> NoValue, borderRadius |-> NoValue, padding |-> NoValue] :
      s \in StepLists }

InitialState ==
    [currentStep |-> 0, isActive |-> FALSE, isCompleted |-> FALSE,
     overlay |-> NullOverlay, tooltip |-> NullTooltip,
     currentHighlightedElement |-> "null", currentStepConfig |-> NoStep,
     resizeHandler |-> FALSE, scrollHandler |-> FALSE]

\* faulty variant: the auto-start timer is scheduled whatever the store holds
init_ignoresFlag(c, store) ==
    IF c.autoStart
    THEN <<Timer("autostart", c.startDelay)>>
    ELSE <<>>

\* the document before the tour: its elements and their rects, and the height the
\* tooltip will measure
Page(els, rects, h) ==
    [elements |-> els, overlays |-> 0, tooltips |-> 0, highlight |-> {},
     listeners |-> [t \in Targets |-> 0], rects |-> rects, tooltipHeight |-> h]

Window(v) == [resize |-> 0, scroll |-> 0, documentScroll |-> 0,
              innerWidth |-> v.innerWidth, innerHeight |-> v.innerHeight]

\* init(): the auto-start timer
init(c, store) ==
    IF c.autoStart /\ ~isCompletedIn(store, c.storageKey)
    THEN <<Timer("autostart", c.startDelay)>>
    ELSE <<>>

\* construction from one of the argument's forms, over a store that holds the
\* flag of an earlier run or not
Construct(o, flags) ==
    /\ \E c \in RawConfigs(o) : config = mergeConfig(c)
    /\ state = InitialState
    /\ \E els \in Documents :
          document = Page(els, [t \in Targets |-> PageRect], PageTooltipHeight)
    /\ window = Window(PageViewport)
    /\ \E v \in flags :
          localStorage = [k \in StorageKeys |-> IF k = config.storageKey THEN v ELSE "null"]
    /\ timers = init(config, localStorage)
    /\ emitted = <<>>
    /\ op = Op("constructor", "", NoValue)
    /\ eventListeners = [e \in EventNames |-> <<>>]
    /\ invoked = <<>>

Init == Construct(Explicit, {"null"})

InitAutoStart == Construct(QuickStart, {"null", "true"})

----------------------------------------------------------------------------
(* Actions: one per public call, timer callback or DOM event *)

\* the handler's result becomes the next state, within the bounds of the model
Commit(w, o) ==
    /\ Len(w.timers) <= MaxTimers
    /\ w.state.currentStep <= MaxIndex
    /\ \A t \in Targets : w.document.listeners[t] <= MaxListeners
    /\ config' = w.config
    /\ state' = w.state
    /\ document' = w.document
    /\ window' = w.window
    /\ localStorage' = w.localStorage
    /\ timers' = w.timers
    /\ emitted' = w.emitted
    /\ op' = o
    /\ eventListeners' = w.eventListeners
    /\ invoked' = w.invoked

CallStart == Commit(start(World), Op("start", "", NoValue))

CallNextStep == Commit(nextStep(World), Op("nextStep", "", NoValue))

CallPreviousStep == Commit(previousStep(World), Op("previousStep", "", NoValue))

CallGoToStep == \E k \in -1..MaxSteps : Commit(goToStep(World, k), Op("goToStep", "", k))

CallComplete == Commit(complete(World), Op("complete", "", NoValue))

CallClose == Commit(close(World), Op("close", "", NoValue))

CallReset == Commit(reset(World), Op("reset", "", NoValue))

CallRestart == Commit(restart(World), Op("restart", "", NoValue))

\* a timer fires once every timer that is due no later has fired
CanFire(i) == \A j \in 1..(i - 1) : timers[j].delay > timers[i].delay

RemoveAt(s, i) == SubSeq(s, 1, i - 1) \o SubSeq(s, i + 1, Len(s))

FireTimer ==
    \E i \in 1..Len(timers) :
        /\ CanFire(i)
        /\ Commit(timerCallback([World EXCEPT !.timers = RemoveAt(timers, i)], timers[i].kind),
                  Op("timer", timers[i].kind, NoValue))

ClickTarget ==
    \E t \in document.elements :
        /\ document.listeners[t] > 0
        /\ Commit(handleClick(World, t, document.listeners[t]), Op("click", t, NoValue))

WindowEvent ==
    /\ state.resizeHandler
    /\ Commit(resizeHandler(World), Op("resize", "", NoValue))

Next ==
    \/ CallStart
    \/ CallNextStep
    \/ CallPreviousStep
    \/ CallGoToStep
    \/ CallComplete
    \/ CallClose
    \/ CallReset
    \/ CallRestart
    \/ FireTimer
    \/ ClickTarget
    \/ WindowEvent

Spec == Init /\ [][Next]_vars

\* a page that registers and removes listeners of 'start' and 'close' around a
\* tour of one step
ListenedEvents == {"start", "close"}

CallOn ==
    \E e \in ListenedEvents, h \in Handlers :
        /\ Len(eventListeners[e]) < MaxRegistrations
        /\ Commit(on(World, e, h), Op("on", e, h))

CallOff ==
    \E e \in ListenedEvents, h \in Handlers : Commit(off(World, e, h), Op("off", e, h))

InitListeners ==
    /\ Init
    /\ config.steps = <<Step("#a", "observe", TRUE, FALSE, NoValue)>>
    /\ document.elements = Targets

NextListeners ==
    \/ CallOn
    \/ CallOff
    \/ CallStart
    \/ CallClose

SpecListeners == InitListeners /\ [][NextListeners]_vars

\* a tour of one highlighted step over pages of many layouts: the target's rect,
\* the viewport, the measured tooltip height, and the spotlight options of the
\* step and of the configuration
GeometrySteps ==
    { FullStep("#a", "observe", TRUE, FALSE, r, p, pos) :
        r \in {NoValue, 0, 40}, p \in {NoValue, 0},
        pos \in {"top", "bottom", "left", "right", "center"} }

GeometryRects ==
    { Rect(t, l, l + w, t + h) :
        t \in {-40, 100, 760}, h \in {10, 40}, l \in {-40, 100, 980}, w \in {10, 100} }

Viewports == { PageViewport, [innerWidth |-> 300, innerHeight |-> 200] }

TooltipHeights == {120, 200}

GeometryConfigs ==
    { [steps |-> <<gs>>, storageKey |-> "tour", autoStart |-> "false",
       startDelay |-> NoValue, borderRadius |-> br, padding |-> pd] :
        gs \in GeometrySteps, br \in {NoValue, 0}, pd \in {NoValue, 4} }

InitGeometry ==
    /\ \E c \in GeometryConfigs : config = mergeConfig(c)
    /\ state = InitialState
    /\ \E r \in GeometryRects, h \in TooltipHeights :
          document = Page(Targets, [t \in Targets |-> r], h)
    /\ \E v \in Viewports : window = Window(v)
    /\ localStorage = [k \in StorageKeys |-> "null"]
    /\ timers = init(config, localStorage)
    /\ emitted = <<>>
    /\ op = Op("constructor", "", NoValue)
    /\ eventListeners = [e \in EventNames |-> <<>>]
    /\ invoked = <<>>

NextGeometry ==
    \/ CallStart
    \/ CallClose
    \/ WindowEvent

SpecGeometry == InitGeometry /\ [][NextGeometry]_vars

\* one step at each placement, its target at the edges or in the middle of the
\* viewport: placements that are clamped and placements that are not
PlacementSteps ==
    { FullStep("#a", "observe", TRUE, FALSE, NoValue, NoValue, pos) :
        pos \in {"top", "bottom", "left", "right", "center"} }

PlacementRects ==
    { Rect(t, l, l + w, t + h) :
        t \in {-40, 300, 760}, h \in {10, 40}, l \in {-40, 400, 980}, w \in {10, 100} }

InitPlacement ==
    /\ \E ps \in PlacementSteps :
          config = mergeConfig([steps |-> <<ps>>, storageKey |-> "tour",
                                autoStart |-> "false", startDelay |-> NoValue,
                                borderRadius |-> NoValue, padding |-> NoValue])
    /\ state = InitialState
    /\ \E r \in PlacementRects, h \in TooltipHeights :
          document = Page(Targets, [t \in Targets |-> r], h)
    /\ \E v \in Viewports : window = Window(v)
    /\ localStorage = [k \in StorageKeys |-> "null"]
    /\ timers = init(config, localStorage)
    /\ emitted = <<>>
    /\ op = Op("constructor", "", NoValue)
    /\ eventListeners = [e \in EventNames |-> <<>>]
    /\ invoked = <<>>

SpecPlacement == InitPlacement /\ [][NextGeometry]_vars

SpecAutoStart == InitAutoStart /\ [][Next]_vars

\* a tour one step longer than the navigation calls that can be pending, every
\* target in the document: calls of nextStep() made before the settle timers fire
LongTour ==
    [i \in 1..(MaxSteps + 1) |->
        Step(IF i % 2 = 1 THEN "#a" ELSE "#b", "observe", TRUE, FALSE, NoValue)]

InitRace ==
    /\ config = mergeConfig([steps |-> LongTour, storageKey |-> "tour",
                             autoStart |-> "false", startDelay |-> NoValue,
                             borderRadius |-> NoValue, padding |-> NoValue])
    /\ state = InitialState
    /\ document = Page(Targets, [t \in Targets |-> PageRect], PageTooltipHeight)
    /\ window = Window(PageViewport)
    /\ localStorage = [k \in StorageKeys |-> "null"]
    /\ timers = init(config, localStorage)
    /\ emitted = <<>>
    /\ op = Op("constructor", "", NoValue)
    /\ eventListeners = [e \in EventNames |-> <<>>]
    /\ invoked = <<>>

NextRace ==
    \/ CallStart
    \/ CallNextStep
    \/ CallPreviousStep
    \/ CallClose
    \/ FireTimer

SpecRace == InitRace /\ [][NextRace]_vars

\* steps with and without a highlight: a rounded spotlight (the default border
\* radius), a sharp one (radius 0) and none
HighlightPool ==
    { Step("#a", "observe", TRUE, FALSE, NoValue),
      Step("#b", "observe", TRUE, FALSE, 0),
      Step("#a", "observe", FALSE, FALSE, NoValue),
      Step("#b", "observe", FALSE, FALSE, NoValue) }

HighlightLists == UNION { [1..n -> HighlightPool] : n \in 1..MaxSteps }

InitHighlight ==
    /\ \E l \in HighlightLists :
         config = mergeConfig([steps |-> l, storageKey |-> "tour",
                               autoStart |-> "false", startDelay |-> NoValue,
                               borderRadius |-> NoValue, padding |-> NoValue])
    /\ state = InitialState
    /\ document = Page(Targets, [t \in Targets |-> PageRect], PageTooltipHeight)
    /\ window = Window(PageViewport)
    /\ localStorage = [k \in StorageKeys |-> "null"]
    /\ timers = init(config, localStorage)
    /\ emitted = <<>>
    /\ op = Op("constructor", "", NoValue)
    /\ eventListeners = [e \in EventNames |-> <<>>]
    /\ invoked = <<>>

NextHighlight ==
    \/ CallStart
    \/ CallNextStep
    \/ CallPreviousStep
    \/ CallClose
    \/ FireTimer
    \/ WindowEvent

SpecHighlight == InitHighlight /\ [][NextHighlight]_vars

\* steps of either action, skipable or not, on one target of the document
ControlPool ==
    { Step("#a", a, TRUE, sk, NoValue) : a \in {"observe", "click"}, sk \in BOOLEAN }

ControlLists == UNION { [1..n -> ControlPool] : n \in 1..MaxSteps }

InitControls ==
    /\ \E l \in ControlLists :
         config = mergeConfig([steps |-> l, storageKey |-> "tour",
                               autoStart |-> "false", startDelay |-> NoValue,
                               borderRadius |-> NoValue, padding |-> NoValue])
    /\ state = InitialState
    /\ document = Page(Targets, [t \in Targets |-> PageRect], PageTooltipHeight)
    /\ window = Window(PageViewport)
    /\ localStorage = [k \in StorageKeys |-> "null"]
    /\ timers = init(config, localStorage)
    /\ emitted = <<>>
    /\ op = Op("constructor", "", NoValue)
    /\ eventListeners = [e \in EventNames |-> <<>>]
    /\ invoked = <<>>

NextControls ==
    \/ CallStart
    \/ CallNextStep
    \/ CallPreviousStep
    \/ FireTimer
    \/ ClickTarget

SpecControls == InitControls /\ [][NextControls]_vars

\* an instance that is never started: nextStep() calls and the timers they leave
NextIdle ==
    \/ CallNextStep
    \/ FireTimer

SpecIdle == Init /\ [][NextIdle]_vars

\* tours of observe steps, left to the event loop: a timer that is due runs
ObserveLists ==
    UNION { [1..n -> { [s EXCEPT !.action = "observe"] : s \in StepPool }] :
              n \in 0..MaxSteps }

InitEventLoop ==
    /\ \E l \in ObserveLists :
          config = mergeConfig([steps |-> l, storageKey |-> "tour",
                                autoStart |-> "false", startDelay |-> NoValue,
                                borderRadius |-> NoValue, padding |-> NoValue])
    /\ state = InitialState
    /\ \E els \in Documents :
          document = Page(els, [t \in Targets |-> PageRect], PageTooltipHeight)
    /\ window = Window(PageViewport)
    /\ localStorage = [k \in StorageKeys |-> "null"]
    /\ timers = init(config, localStorage)
    /\ emitted = <<>>
    /\ op = Op("constructor", "", NoValue)
    /\ eventListeners = [e \in EventNames |-> <<>>]
    /\ invoked = <<>>

NextEventLoop ==
    \/ CallStart
    \/ CallNextStep
    \/ CallPreviousStep
    \/ CallComplete
    \/ CallClose
    \/ CallRestart
    \/ FireTimer
    \/ WindowEvent

\* the event loop runs the callback of a timer that is pending: the next handler
\* is a timer callback (FireTimer is the only action that records one)
TimerOps ==
    [name : {"timer"}, kind : {"autostart", "restart", "settle", "click", "cleanup"},
     arg : {NoValue}, active : BOOLEAN, index : 0..MaxIndex, pending : 1..MaxTimers]

TimerRuns == timers # <<>> /\ op' \in TimerOps

SpecEventLoop == InitEventLoop /\ [][NextEventLoop]_vars /\ WF_op(TimerRuns)

\* tours none of whose targets is in the document, started and left to the event
\* loop
InitMissing ==
    /\ \E l \in StepLists \ {<<>>}, k \in StorageKeys :
         config = mergeConfig([steps |-> l, storageKey |-> k,
                               autoStart |-> "false", startDelay |-> NoValue,
                               borderRadius |-> NoValue, padding |-> NoValue])
    /\ state = InitialState
    /\ document = Page({}, [t \in Targets |-> PageRect], PageTooltipHeight)
    /\ window = Window(PageViewport)
    /\ localStorage = [k \in StorageKeys |-> "null"]
    /\ timers = init(config, localStorage)
    /\ emitted = <<>>
    /\ op = Op("constructor", "", NoValue)
    /\ eventListeners = [e \in EventNames |-> <<>>]
    /\ invoked = <<>>

NextMissing ==
    \/ CallStart
    \/ FireTimer

SpecMissing == InitMissing /\ [][NextMissing]_vars /\ WF_op(TimerRuns)

----------------------------------------------------------------------------
(* Vocabulary of the properties *)

Has(n) == \E i \in 1..Len(emitted) : emitted[i].name = n

StepCount == Len(config.steps)

\* start() ran: called, or as the callback of the auto-start or restart timer
StartRan == op.name = "start" \/ (op.name = "timer" /\ op.kind \in {"autostart", "restart"})

TargetPresent(i) == config.steps[i + 1].target \in document.elements

\* step j is on screen: announced by the handler and shown by the tooltip
Rendered(st, em, j) ==
    /\ Len(em) >= 2
    /\ em[1] = Event("stepChange", "", NoValue, j, config.steps[j + 1])
    /\ em[2] = Event("onStepChange", "", NoValue, j, config.steps[j + 1])
    /\ st.currentStepConfig = config.steps[j + 1]
    /\ st.tooltip.exists /\ st.tooltip.visible
    /\ st.tooltip.kind = "step"
    /\ st.tooltip.index = j
    /\ st.tooltip.step = config.steps[j + 1]

\* complete() ran as the whole of the handler
Completed(st, em, store, tm) ==
    /\ em = <<Plain("complete"), Plain("onComplete")>>
    /\ store[config.storageKey] = "true"
    /\ st.tooltip.exists => st.tooltip.kind = "completion" /\ st.tooltip.visible
    /\ Len(tm) > 0 /\ tm[Len(tm)] = Timer("cleanup", CleanupDelay)

\* the pending timers that navigate: settle timers and click debounces
NavPending(tm) == Cardinality({ i \in 1..Len(tm) : tm[i].kind \in {"settle", "click"} })

\* isCompleted() of an instance constructed now with storage key k
FreshIsCompleted(store, k) ==
    isCompletedIn(store, mergeConfig([steps |-> <<>>, storageKey |-> k, autoStart |-> "false",
                                      startDelay |-> NoValue, borderRadius |-> NoValue,
                                      padding |-> NoValue]).storageKey)

\* the keys a configuration may give for the instance's own resolved key
SameKey == { k \in {"", "tour", DefaultStorageKey} : mergeStorageKey(k) = config.storageKey }

----------------------------------------------------------------------------
(* Properties *)

\* C1 (as stated): start() on an idle tour with a non-empty step list returns with
\* isActive() true and getCurrentStep().index = 0, whatever the document holds.
C1_StartLeavesIndexZero ==
    (op.name = "start" /\ ~op.active /\ StepCount > 0)
        => (isActive /\ getCurrentStep.index = 0)

\* C1 (amended): start() on an idle tour with a non-empty step list returns with
\* isActive() true, and with index 0 when the first step's target is in the
\* document, index 1 (the auto-advance past a missing target) when it is not.
C1_StartActivates ==
    (StartRan /\ ~op.active /\ StepCount > 0)
        => /\ isActive
           /\ getCurrentStep.index = IF TargetPresent(0) THEN 0 ELSE 1

C1_Witness ==
    /\ op.name = "start" /\ ~op.active /\ op.index > 0
    /\ isActive /\ getCurrentStep.index = 0

C1_WitnessMissingTarget ==
    /\ op.name = "start" /\ ~op.active
    /\ isActive /\ getCurrentStep.index = 1

\* C2: start() on an active tour does nothing: no 'start' event or onStart
\* callback, the index is not reset, no second overlay, tooltip or
\* resize/scroll listener exists, and nothing is scheduled.
C2_StartWhileActiveIsNoOp ==
    (StartRan /\ op.active)
        => /\ emitted = <<>>
           /\ isActive
           /\ state.currentStep = op.index
           /\ document.overlays = 1 /\ document.tooltips = 1
           /\ window.resize = 1 /\ window.scroll = 1 /\ window.documentScroll = 1
           /\ Len(timers) = op.pending - (IF op.name = "timer" THEN 1 ELSE 0)

C2_Witness ==
    /\ op.name = "start" /\ op.active /\ op.index > 0
    /\ emitted = <<>>

\* C3: with an empty step list the tour never starts: no 'start' event or onStart
\* callback, no overlay, isActive() false, however start() is reached.
C3_EmptyListNeverStarts ==
    StepCount = 0
        => /\ ~isActive
           /\ ~state.overlay.exists /\ ~state.tooltip.exists
           /\ document.overlays = 0 /\ document.tooltips = 0
           /\ ~Has("start") /\ ~Has("onStart")

C3_Witness ==
    /\ StepCount = 0
    /\ op.name = "timer" /\ op.kind = "autostart"

\* C4: on an active tour at index i with no other navigation pending, nextStep()
\* sets the index to i+1 and schedules one settle timer; when that timer fires,
\* step i+1 is rendered if i+1 < stepCount and its target exists, and complete()
\* runs if i+1 = stepCount.
C4_NextStepThenSettle ==
    [][ /\ (op'.name = "nextStep" /\ state.isActive)
            => /\ state'.currentStep = state.currentStep + 1
               /\ timers' = Append(timers, Timer("settle", SettleDelay))
        /\ (/\ op.name = "nextStep" /\ op.active /\ NavPending(timers) = 1
            /\ op'.name = "timer" /\ op'.kind = "settle")
            => LET j == op.index + 1
               IN /\ j < StepCount /\ TargetPresent(j)
                      => state'.currentStep = j /\ Rendered(state', emitted', j)
                  /\ j = StepCount
                      => Completed(state', emitted', localStorage', timers')
      ]_vars

C4_Witness ==
    /\ op.name = "timer" /\ op.kind = "settle" /\ op.active /\ op.index = 1
    /\ StepCount > 1
    /\ Rendered(state, emitted, 1)

\* C5: previousStep() at index 0 changes nothing (no timer, tooltip not hidden,
\* no event); at an index i > 0 it sets the index to i-1.
C5_PreviousStep ==
    [][ op'.name = "previousStep"
            => IF state.currentStep = 0
               THEN /\ emitted' = <<>>
                    /\ UNCHANGED <<config, state, document, window, localStorage, timers>>
               ELSE state'.currentStep = state.currentStep - 1
      ]_vars

C5_Witness ==
    /\ op.name = "previousStep" /\ op.index = 0 /\ op.active
    /\ state.tooltip.visible /\ emitted = <<>>

ValidIndex(k) == k >= 0 /\ k < StepCount

\* goToStep(k): nothing at all for an index outside the list, else the index is k
\* and one settle timer is scheduled
GoToStepCall ==
    op'.name = "goToStep"
        => IF ValidIndex(op'.arg)
           THEN /\ state'.currentStep = op'.arg
                /\ timers' = Append(timers, Timer("settle", SettleDelay))
           ELSE /\ emitted' = <<>>
                /\ UNCHANGED <<config, state, document, window, localStorage, timers>>

\* the settle timer of a goToStep(k) on an active tour fires, nothing in between
GoToStepSettles ==
    /\ op.name = "goToStep" /\ ValidIndex(op.arg) /\ op.active
    /\ NavPending(timers) = 1
    /\ op'.name = "timer" /\ op'.kind = "settle"

\* C6 (as stated): goToStep(k) changes nothing and schedules nothing when k < 0 or
\* k >= stepCount; otherwise it sets the index to k and step k is rendered once the
\* settle delay has elapsed.
C6_GoToStepRendersK ==
    [][ /\ GoToStepCall
        /\ GoToStepSettles
            => state'.currentStep = op.arg /\ Rendered(state', emitted', op.arg)
      ]_vars

\* C6 (amended): goToStep(k) changes nothing and schedules nothing when k < 0 or
\* k >= stepCount; otherwise it sets the index to k and, once the settle delay has
\* elapsed on an active tour, step k is rendered if its target is in the document;
\* if it is not, the index moves on to k+1 and step k is never announced.
C6_GoToStep ==
    [][ /\ GoToStepCall
        /\ GoToStepSettles
            => IF TargetPresent(op.arg)
               THEN state'.currentStep = op.arg /\ Rendered(state', emitted', op.arg)
               ELSE /\ state'.currentStep = op.arg + 1
                    /\ emitted' = <<Event("stepNavigation", "next", op.arg, op.arg + 1,
                                          config.steps[op.arg + 1])>>
      ]_vars

C6_Witness ==
    /\ op.name = "goToStep" /\ op.active /\ op.arg = 1 /\ op.index = 0
    /\ StepCount > 1 /\ TargetPresent(1)
    /\ state.currentStep = 1 /\ ~state.tooltip.visible
    /\ NavPending(timers) = 1

C6_WitnessOutOfRange ==
    /\ op.name = "goToStep" /\ op.active /\ op.arg = StepCount
    /\ state.tooltip.visible /\ emitted = <<>>

\* C7: complete() writes 'true' under the instance's storage key and fires the
\* 'complete' event and the onComplete callback; isCompleted() is then true on this
\* instance and on an instance constructed with the same storage key.
C7_CompletePersists ==
    /\ op.name = "complete" => emitted = <<Plain("complete"), Plain("onComplete")>>
    /\ Has("complete")
        => /\ Has("onComplete")
           /\ localStorage[config.storageKey] = "true"
           /\ isCompleted(World)
           /\ \A k \in SameKey : FreshIsCompleted(localStorage, k)
    /\ state.isCompleted => isCompleted(World)

C7_Witness ==
    /\ op.name = "complete" /\ op.active /\ op.index = 0
    /\ Has("complete") /\ isCompleted(World)
    /\ FreshIsCompleted(localStorage, "tour")

\* C8: close() fires the 'close' event and the onClose callback, persists the
\* completion flag and, within the call itself, takes overlay and tooltip out of
\* the document and sets isActive() to false; it schedules no timer.
C8_CloseIsSynchronous ==
    op.name = "close"
        => /\ emitted = <<Plain("close"), Plain("onClose")>>
           /\ localStorage[config.storageKey] = "true" /\ isCompleted(World)
           /\ ~isActive
           /\ ~state.overlay.exists /\ ~state.tooltip.exists
           /\ document.overlays = 0 /\ document.tooltips = 0
           /\ Len(timers) = op.pending

C8_Witness ==
    /\ op.name = "close" /\ op.active /\ op.pending > 0
    /\ ~isActive /\ document.overlays = 0

\* C9: reset() removes the persisted completion flag, so that isCompleted() is
\* false here and on a new instance with the same key, and leaves the rest alone:
\* isActive(), the index, overlay, tooltip, listeners and pending timers.
C9_ResetClearsFlagOnly ==
    [][ op'.name = "reset"
            => /\ localStorage' = [localStorage EXCEPT ![config.storageKey] = "null"]
               /\ state' = [state EXCEPT !.isCompleted = FALSE]
               /\ ~isCompletedIn(localStorage', config.storageKey)
               /\ \A k \in SameKey : ~FreshIsCompleted(localStorage', k)
               /\ emitted' = <<>>
               /\ UNCHANGED <<config, document, window, timers>>
      ]_vars

C9_Witness ==
    /\ op.name = "reset" /\ op.active /\ op.pending > 0
    /\ isActive /\ state.tooltip.kind = "completion"
    /\ localStorage[config.storageKey] = "null"
    /\ Len(timers) = op.pending

\* the step shown by the handler: step 0 for start() on an idle tour, the current
\* step for a settle timer
ShownIndex == IF StartRan THEN 0 ELSE op.index

ShowsStep ==
    \/ StartRan /\ ~op.active /\ StepCount > 0
    \/ op.name = "timer" /\ op.kind = "settle" /\ op.index < StepCount

\* C10: when the target of the step being shown is not in the document, the tour
\* goes on: isActive() is as it was (true on an active tour), the step is not
\* announced by stepChange or onStepChange, and nextStep() moves the index to the
\* following one and schedules its settle timer.
C10_MissingTargetAdvances ==
    (ShowsStep /\ ~TargetPresent(ShownIndex))
        => /\ isActive = (op.active \/ StartRan)
           /\ ~Has("stepChange") /\ ~Has("onStepChange")
           /\ state.currentStep = ShownIndex + 1
           /\ Len(emitted) > 0
           /\ emitted[1] = Event("stepNavigation", "next", ShownIndex, ShownIndex + 1,
                                 config.steps[ShownIndex + 1])
           /\ Len(timers) > 0 /\ timers[Len(timers)] = Timer("settle", SettleDelay)

C10_Witness ==
    /\ op.name = "timer" /\ op.kind = "settle" /\ op.active /\ op.index = 1
    /\ StepCount > 1 /\ ~TargetPresent(1)
    /\ isActive /\ state.currentStep = 2 /\ ~Has("stepChange")

\* C11: every stepChange carries an index inside the step list and the step at
\* that index, and is followed at once by onStepChange with the same index and
\* step; the settle timer of a nextStep() from index 0 announces {1, steps[1]}.
C11_StepChangePayload ==
    [][ /\ \A i \in 1..Len(emitted') :
              emitted'[i].name = "stepChange"
                  => /\ emitted'[i].toStep >= 0 /\ emitted'[i].toStep < StepCount
                     /\ emitted'[i].step = config.steps[emitted'[i].toStep + 1]
                     /\ i < Len(emitted')
                     /\ emitted'[i + 1] = Event("onStepChange", "", NoValue,
                                                emitted'[i].toStep, emitted'[i].step)
        /\ (/\ op.name = "nextStep" /\ op.index = 0 /\ NavPending(timers) = 1
            /\ op'.name = "timer" /\ op'.kind = "settle")
            => /\ \A i \in 1..Len(emitted') :
                      emitted'[i].name = "stepChange"
                          => emitted'[i] = Event("stepChange", "", NoValue, 1, config.steps[2])
               /\ (StepCount > 1 /\ TargetPresent(1)) => Len(emitted') = 2
      ]_vars

C11_Witness ==
    /\ op.name = "timer" /\ op.kind = "settle" /\ op.index = 1 /\ StepCount > 1
    /\ Len(emitted) = 2
    /\ emitted[1] = Event("stepChange", "", NoValue, 1, config.steps[2])
    /\ emitted[2] = Event("onStepChange", "", NoValue, 1, config.steps[2])

ConstructorArgs ==
    [steps : {<<>>}, storageKey : {"", "tour"}, autoStart : {"undefined", "true", "false"},
     startDelay : {NoValue, 0, 500}, borderRadius : {NoValue}, padding : {NoValue}]

AutoStartPending(tm) == Cardinality({ i \in 1..Len(tm) : tm[i].kind = "autostart" })

\* C13: construction schedules one start() after startDelay ms (1000 by default)
\* when autoStart is true or left out and the store holds no completion flag, and
\* nothing otherwise; no handler schedules another, so a tour becomes active only
\* through that timer or through start() and restart().
C13_AutoStart ==
    /\ \A c \in ConstructorArgs, v \in {"null", "true"} :
          LET m == mergeConfig(c)
              store == [k \in StorageKeys |-> IF k = m.storageKey THEN v ELSE "null"]
              delay == IF c.startDelay = NoValue THEN 1000 ELSE c.startDelay
          IN init(m, store) = IF c.autoStart # "false" /\ v # "true"
                              THEN <<Timer("autostart", delay)>>
                              ELSE <<>>
    /\ timers = IF localStorage[config.storageKey] = "true"
                THEN <<>>
                ELSE <<Timer("autostart", 1000)>>
    /\ [][ /\ AutoStartPending(timers') <= AutoStartPending(timers)
           /\ (op'.name = "timer" /\ op'.kind = "autostart")
                  => AutoStartPending(timers) = 1 /\ AutoStartPending(timers') = 0
           /\ (~state.isActive /\ state'.isActive)
                  => \/ op'.name = "start"
                     \/ op'.name = "timer" /\ op'.kind \in {"autostart", "restart"}
         ]_vars

C13_Witness ==
    /\ op.name = "timer" /\ op.kind = "autostart" /\ ~op.active
    /\ isActive /\ Has("start") /\ AutoStartPending(timers) = 0

C13_WitnessCompleted ==
    /\ op.name = "constructor" /\ localStorage[config.storageKey] = "true"
    /\ timers = <<>> /\ ~isActive

\* the registrations of handler h among the listeners l
Count(l, h) == Cardinality({ i \in 1..Len(l) : l[i] = h })

EmittedTimes(em, e) == Cardinality({ i \in 1..Len(em) : em[i].name = e })

CalledTimes(calls, e, h) ==
    Cardinality({ i \in 1..Len(calls) : calls[i] = [event |-> e, handler |-> h] })

\* C14: off(event, handler) removes the first registration of the handler for the
\* event and nothing else, and changes nothing for a handler that is not
\* registered; an emit calls each handler once per registration that is left, so a
\* handler registered once and removed is not called again, and one registered
\* twice and removed once is called once per emit.
C14_OffRemovesFirst ==
    [][ /\ op'.name = "off"
            => LET l == eventListeners[op'.kind]
                   h == op'.arg
               IN /\ IF Count(l, h) = 0
                     THEN eventListeners' = eventListeners
                     ELSE \E i \in 1..Len(l) :
                             /\ l[i] = h
                             /\ \A j \in 1..(i - 1) : l[j] # h
                             /\ eventListeners' =
                                    [eventListeners EXCEPT ![op'.kind] = RemoveAt(l, i)]
                  /\ Count(eventListeners'[op'.kind], h) =
                         IF Count(l, h) = 0 THEN 0 ELSE Count(l, h) - 1
                  /\ invoked' = <<>> /\ emitted' = <<>>
                  /\ UNCHANGED <<config, state, document, window, localStorage, timers>>
        /\ \A e \in ListenedEvents, h \in Handlers :
              CalledTimes(invoked', e, h) = EmittedTimes(emitted', e) * Count(eventListeners'[e], h)
      ]_vars

\* off(start, 1) has taken the first of <<1, 2, 1>>
C14_Witness ==
    /\ op.name = "off" /\ op.kind = "start" /\ op.arg = 1
    /\ eventListeners["start"] = <<2, 1>>
    /\ eventListeners["close"] = <<1, 1, 1>>

\* a handler registered twice and removed once is called once by the next emit
C14_WitnessCalledOnce ==
    /\ op.name = "start" /\ Has("start")
    /\ eventListeners["start"] = <<1>>
    /\ invoked = <<[event |-> "start", handler |-> 1]>>

\* the backdrop shows a cut-out: the polygon of its clip-path or the mask of its svg
HasCutout == state.overlay.clipPath = "polygon" \/ state.overlay.svg

\* the corners of the cut-out on screen
Cutout ==
    IF state.overlay.clipPath = "polygon"
    THEN state.overlay.polygon
    ELSE [x1 |-> state.overlay.mask.x,
          y1 |-> state.overlay.mask.y,
          x2 |-> state.overlay.mask.x + state.overlay.mask.width,
          y2 |-> state.overlay.mask.y + state.overlay.mask.height]

\* the rect of the highlighted element, and the padding and radius in force for
\* the step on screen: the step's own if it has one, else the configuration's
TargetRect == document.rects[state.currentHighlightedElement]

PaddingInForce ==
    IF state.currentStepConfig.padding # NoValue
    THEN state.currentStepConfig.padding
    ELSE config.padding

RadiusInForce ==
    IF state.currentStepConfig.radius # NoValue
    THEN state.currentStepConfig.radius
    ELSE config.borderRadius

\* C15: the cut-out of a target rect with padding p in a W x H viewport is
\* x1 = max(0, left - p), y1 = max(0, top - p), x2 = min(W, right + p),
\* y2 = min(H, bottom + p); so x1 >= 0, y1 >= 0, x2 <= W, y2 <= H, and the rect
\* {top 100, left 100, right 200, bottom 140} with p = 8 in 1000 x 800 gives
\* {92, 92, 208, 148}.
C15_Cutout ==
    HasCutout
        => /\ Cutout.x1 = Max(0, TargetRect.left - PaddingInForce)
           /\ Cutout.y1 = Max(0, TargetRect.top - PaddingInForce)
           /\ Cutout.x2 = Min(window.innerWidth, TargetRect.right + PaddingInForce)
           /\ Cutout.y2 = Min(window.innerHeight, TargetRect.bottom + PaddingInForce)
           /\ Cutout.x1 >= 0 /\ Cutout.y1 >= 0
           /\ Cutout.x2 <= window.innerWidth /\ Cutout.y2 <= window.innerHeight
           /\ (/\ TargetRect = Rect(100, 100, 200, 140) /\ PaddingInForce = 8
               /\ window.innerWidth = 1000 /\ window.innerHeight = 800)
                  => Cutout = [x1 |-> 92, y1 |-> 92, x2 |-> 208, y2 |-> 148]

C15_Witness ==
    /\ op.name = "start" /\ HasCutout
    /\ TargetRect = Rect(100, 100, 200, 140) /\ PaddingInForce = 8
    /\ window.innerWidth = 1000 /\ window.innerHeight = 800
    /\ Cutout = [x1 |-> 92, y1 |-> 92, x2 |-> 208, y2 |-> 148]

\* a rect whose left edge minus the padding is negative
C15_WitnessClamped ==
    /\ op.name = "start" /\ HasCutout
    /\ TargetRect.left - PaddingInForce < 0 /\ Cutout.x1 = 0

\* a step's tooltip is on screen
StepTooltip == state.tooltip.exists /\ state.tooltip.kind = "step"

MaxLeft == window.innerWidth - TooltipWidth - TooltipMargin
MaxTop == window.innerHeight - document.tooltipHeight - TooltipMargin

\* C16 (as stated): for every rect, placement, tooltip size and viewport the
\* tooltip ends within [20, viewport - size - 20] on both axes.
C16_TooltipWithinRange ==
    StepTooltip
        => /\ TooltipMargin <= state.tooltip.left /\ state.tooltip.left <= MaxLeft
           /\ TooltipMargin <= state.tooltip.top /\ state.tooltip.top <= MaxTop

\* C16 (amended): the tooltip ends at left >= 20 and top >= 20; on an axis where
\* the viewport holds the tooltip and both margins (viewport - size - 20 >= 20) it
\* also ends at most at viewport - size - 20, and on an axis where it does not, it
\* ends at 20.
C16_TooltipClamped ==
    StepTooltip
        => /\ TooltipMargin <= state.tooltip.left
           /\ TooltipMargin <= state.tooltip.top
           /\ IF MaxLeft >= TooltipMargin
              THEN state.tooltip.left <= MaxLeft
              ELSE state.tooltip.left = TooltipMargin
           /\ IF MaxTop >= TooltipMargin
              THEN state.tooltip.top <= MaxTop
              ELSE state.tooltip.top = TooltipMargin

\* a tooltip that would start left of the viewport is moved to 20
C16_Witness ==
    /\ op.name = "start" /\ StepTooltip
    /\ MaxLeft >= TooltipMargin
    /\ placeTooltip(TargetRect, state.currentStepConfig.position,
                    document.tooltipHeight).left < 0
    /\ state.tooltip.left = TooltipMargin

\* a tooltip that would run past the right and lower edges is moved back
C16_WitnessFarEdge ==
    /\ op.name = "start" /\ StepTooltip
    /\ state.tooltip.left = MaxLeft /\ state.tooltip.top = MaxTop
    /\ MaxLeft > TooltipMargin /\ MaxTop > TooltipMargin

\* C18: the radius and padding in force are the step's own when it has them (0
\* included) and the configuration's otherwise (8 and 8 by default); the backdrop
\* is clipped by the sharp polygon exactly when the radius in force is 0, and
\* otherwise carries a rounded mask of radius min(width/2, height/2, radius) of the
\* cut-out, with the clip-path cleared.
C18_RadiusAndPadding ==
    /\ \A br \in {NoValue, 0, 12}, pd \in {NoValue, 0, 4} :
          LET m == mergeConfig([steps |-> <<>>, storageKey |-> "", autoStart |-> "false",
                                startDelay |-> NoValue, borderRadius |-> br, padding |-> pd])
          IN /\ m.borderRadius = IF br = NoValue THEN 8 ELSE br
             /\ m.padding = IF pd = NoValue THEN 8 ELSE pd
    /\ HasCutout
        => /\ Cutout.x1 = Max(0, TargetRect.left - PaddingInForce)
           /\ Cutout.y2 = Min(window.innerHeight, TargetRect.bottom + PaddingInForce)
           /\ state.overlay.clipPath = "polygon" <=> RadiusInForce = 0
           /\ state.overlay.clipPath = "polygon"
                  => ~state.overlay.svg /\ state.overlay.polygon = Cutout
           /\ RadiusInForce # 0
                  => /\ state.overlay.svg
                     /\ state.overlay.clipPath = "none"
                     /\ state.overlay.mask.rx =
                            Min(Min(Half(Cutout.x2 - Cutout.x1), Half(Cutout.y2 - Cutout.y1)),
                                RadiusInForce)

\* a step with radius 0 of its own under a configuration with the default radius
C18_Witness ==
    /\ op.name = "start" /\ HasCutout
    /\ state.currentStepConfig.radius = 0 /\ config.borderRadius = 8
    /\ state.currentStepConfig.padding = 0 /\ config.padding = 8
    /\ state.overlay.clipPath = "polygon"

\* a radius of 40 asked for on a cut-out that is 26 high
C18_WitnessRounded ==
    /\ op.name = "start" /\ HasCutout
    /\ state.currentStepConfig.radius = 40
    /\ Cutout.y2 - Cutout.y1 = 26
    /\ state.overlay.mask.rx = 13 /\ state.overlay.clipPath = "none"

\* the controls the tooltip should show for the step at index j
ControlsOf(j) ==
    [prev |-> j # 0,
     next |-> config.steps[j + 1].action = "observe" /\ j # StepCount - 1,
     skip |-> config.steps[j + 1].skipable,
     close |-> TRUE]

ControlsShown ==
    [prev |-> state.tooltip.prev, next |-> state.tooltip.next,
     skip |-> state.tooltip.skip, close |-> state.tooltip.close]

\* C17: the tooltip of a step shows Previous iff the step is not the first, Next
\* iff the step's action is 'observe' and it is not the last, Skip iff the step is
\* skipable, and Close always.
C17_Controls ==
    (StepTooltip /\ state.tooltip.visible)
        => \E j \in 0..(StepCount - 1) :
              /\ config.steps[j + 1] = state.tooltip.step
              /\ ControlsShown = ControlsOf(j)

\* C17 (showStep only): the tooltip written by showStep for the step it announces
\* shows exactly the controls of that step.
C17_ControlsOfShowStep ==
    (StepTooltip /\ Has("stepChange"))
        => \E i \in 1..Len(emitted) :
              /\ emitted[i].name = "stepChange"
              /\ state.tooltip.step = emitted[i].step
              /\ ControlsShown = ControlsOf(emitted[i].toStep)

\* C19: isActive() is true only between a successful start() and the next close()
\* or complete(): once complete() has run, called or reached by advancing past the
\* last step, isActive() is false.
C19_InactiveOnceCompleted ==
    Has("complete") => ~isActive

\* C20: between handlers, the overlay and tooltip references are both non-null
\* if and only if isActive() is true.
C20_NodesIffActive ==
    /\ (state.overlay.exists /\ state.tooltip.exists) <=> isActive
    /\ state.overlay.exists <=> state.tooltip.exists
    /\ document.overlays = (IF isActive THEN 1 ELSE 0)
    /\ document.tooltips = (IF isActive THEN 1 ELSE 0)

\* the tour has been closed after a step was shown, with a settle timer left over
C20_Witness ==
    /\ op.name = "close" /\ op.active /\ op.index > 0 /\ NavPending(timers) > 0
    /\ ~isActive /\ ~state.overlay.exists /\ ~state.tooltip.exists

\* the completion message is on screen and the tour still counts as active
C20_WitnessCompleted ==
    /\ op.name = "timer" /\ op.kind = "settle" /\ Has("complete")
    /\ isActive /\ state.overlay.exists /\ state.tooltip.kind = "completion"

\* cleanup() ran in the handler: as the whole of close(), inside restart(), or as
\* the callback of the post-completion timer
CleanupRan ==
    \/ op.name \in {"close", "restart"}
    \/ op.name = "timer" /\ op.kind = "cleanup"

\* C21: after cleanup() has run (through close(), the post-completion timer or
\* restart()) the runtime state has its initial values: index 0, isActive false,
\* and overlay, tooltip, highlighted element, step descriptor and resize/scroll
\* handlers all null.
C21_CleanupRestoresInitialState ==
    CleanupRan
        => /\ state.currentStep = InitialState.currentStep
           /\ state.isActive = InitialState.isActive
           /\ state.overlay = InitialState.overlay
           /\ state.tooltip = InitialState.tooltip
           /\ state.currentHighlightedElement = InitialState.currentHighlightedElement
           /\ state.currentStepConfig = InitialState.currentStepConfig
           /\ state.resizeHandler = InitialState.resizeHandler
           /\ state.scrollHandler = InitialState.scrollHandler

\* C21 (all but the index): cleanup() nulls every reference and clears isActive.
C21_CleanupNullsReferences ==
    CleanupRan
        => [state EXCEPT !.currentStep = 0, !.isCompleted = FALSE] = InitialState

\* C22: a settle or click-debounce timer callback that fires while isActive() is
\* false renders nothing: no stepChange event, no onStepChange callback, no click
\* listener attached, no complete().
C22_StaleTimerRendersNothing ==
    [][(op'.name = "timer" /\ op'.kind \in {"settle", "click"} /\ ~state.isActive)
          => /\ \A i \in 1..Len(emitted') :
                   emitted'[i].name \notin {"stepChange", "onStepChange",
                                            "complete", "onComplete"}
             /\ document'.listeners = document.listeners
             /\ localStorage' = localStorage]_vars

\* C23: navigation calls are neither queued nor debounced. Every nextStep() raises
\* the index by one at once and schedules one more settle timer beside those
\* pending, so k calls from index i leave index i + k and k timers; every settle
\* callback renders the step at the index current when it fires, so step i + k is
\* rendered k times and the steps between are never rendered (the tour is active
\* and every target is in the document).
C23_NavigationNotDebounced ==
    [][/\ op'.name = "nextStep"
          => /\ state'.currentStep = state.currentStep + 1
             /\ timers' = Append(timers, Timer("settle", SettleDelay))
       /\ (/\ op'.name = "timer" /\ op'.kind = "settle"
           /\ state.isActive /\ state.currentStep < StepCount)
          => /\ state'.currentStep = state.currentStep
             /\ Rendered(state', emitted', state.currentStep)
             /\ Len(timers') = Len(timers) - 1]_vars

\* two calls of nextStep() from index 0 were pending; the first settle callback
\* renders step 2, and step 1 was never rendered
C23_Witness ==
    /\ op.name = "timer" /\ op.kind = "settle" /\ op.active
    /\ op.index = 2 /\ op.pending = 2
    /\ timers = <<Timer("settle", SettleDelay)>>
    /\ Rendered(state, emitted, 2)

\* the second of the two callbacks renders step 2 once more
C23_WitnessSecondRender ==
    /\ op.name = "timer" /\ op.kind = "settle" /\ op.active
    /\ op.index = 2 /\ op.pending = 1
    /\ timers = <<>>
    /\ Rendered(state, emitted, 2)

\* C24: the completed state is terminal. While the completion message of
\* complete() is on screen, no handler other than start() renders a step: no
\* stepChange is emitted and the message is not replaced by a step's tooltip,
\* whatever navigation calls or pending timers occur.
C24_CompletedIsTerminal ==
    [][(/\ state.tooltip.kind = "completion"
        /\ ~(op'.name = "start" \/ (op'.name = "timer" /\ op'.kind \in {"autostart", "restart"})))
          => /\ \A i \in 1..Len(emitted') : emitted'[i].name # "stepChange"
             /\ state'.tooltip.kind # "step"]_vars

\* the tour is torn down: inactive, overlay and tooltip out of the document, the
\* resize and scroll listeners deregistered
TornDown ==
    /\ ~isActive
    /\ ~state.overlay.exists /\ ~state.tooltip.exists
    /\ document.overlays = 0 /\ document.tooltips = 0
    /\ window.resize = 0 /\ window.scroll = 0 /\ window.documentScroll = 0

\* a method other than complete() has been called or a target clicked; timer
\* callbacks and resize/scroll events are not interventions
Intervened == op.name \notin {"constructor", "complete", "timer", "resize"}

\* C25: after complete(), if no other operation intervenes, the cleanup timer
\* fires and the tour eventually reaches isActive() = false with overlay and
\* tooltip removed and the resize/scroll listeners deregistered.
C25_CleanupFollowsCompletion ==
    Has("complete") ~> (TornDown \/ Intervened)

\* the cleanup timer of complete() has fired on a tour that was active
C25_Witness ==
    /\ op.name = "timer" /\ op.kind = "cleanup" /\ op.active
    /\ isCompletedIn(localStorage, config.storageKey)
    /\ TornDown

\* C26: restart() on a tour with a non-empty step list clears the persisted
\* completion flag and tears the tour down before it returns; the callback that
\* runs first after restart() returns leaves the flag cleared, and when that
\* callback is restart()'s own 500 ms timer the tour is active again with
\* isCompleted() false, at index 0 (1 when the first step's target is missing and
\* showStep has auto-advanced).
C26_RestartReactivates ==
    [][/\ (op'.name = "restart" /\ StepCount > 0)
            => (~isCompletedIn(localStorage', config.storageKey) /\ TornDown')
       /\ (op.name = "restart" /\ op'.name = "timer" /\ StepCount > 0)
            => /\ ~isCompletedIn(localStorage', config.storageKey)
               /\ op'.kind = "restart"
                    => /\ state'.isActive
                       /\ state'.currentStep = IF TargetPresent(0) THEN 0 ELSE 1]_vars

\* restart()'s timer has restarted the tour although a callback scheduled before
\* restart() has marked it completed in between
C26_RestartedWhileCompleted ==
    /\ op.name = "timer" /\ op.kind = "restart" /\ ~op.active
    /\ isActive /\ isCompletedIn(localStorage, config.storageKey)
    /\ timers = <<Timer("cleanup", CleanupDelay)>>

\* C27: the resize and scroll listeners are never duplicated or leaked: in every
\* reachable state the instance has one resize handler on window and one scroll
\* handler on window and on document while isActive() is true, and none while it
\* is false; state.resizeHandler and state.scrollHandler are set exactly then.
C27_ListenersMatchActivity ==
    LET n == IF isActive THEN 1 ELSE 0
    IN /\ window.resize = n
       /\ window.scroll = n
       /\ window.documentScroll = n
       /\ state.resizeHandler = isActive
       /\ state.scrollHandler = isActive

\* restart()'s timer has started the tour a second time: the listeners removed by
\* cleanup() are registered once again
C27_Witness ==
    /\ op.name = "timer" /\ op.kind = "restart" /\ ~op.active
    /\ isActive
    /\ window.resize = 1 /\ window.scroll = 1 /\ window.documentScroll = 1

\* close() has torn down an active tour: no listener is left
C27_WitnessClosed ==
    /\ op.name = "close" /\ op.active
    /\ window.resize = 0 /\ window.scroll = 0 /\ window.documentScroll = 0

\* the click timers scheduled by n listeners
ClickTimers(n) == [i \in 1..n |-> Timer("click", ClickDelay)]

\* C28: the click listener of a 'click' step is one-shot: a click on the target
\* detaches every listener attached to it and schedules one nextStep() 500 ms
\* later per listener, doing nothing else, so that a later click finds no listener;
\* the timer's callback is one call of nextStep(); rendering a step attaches one
\* listener to the target of a 'click' step and none for an 'observe' step.
C28_ClickListenerOneShot ==
    [][/\ op'.name = "click"
            => /\ document.listeners[op'.kind] > 0
               /\ document'.listeners = [document.listeners EXCEPT ![op'.kind] = 0]
               /\ timers' = timers \o ClickTimers(document.listeners[op'.kind])
               /\ state' = state
               /\ emitted' = <<>>
       /\ (op'.name = "timer" /\ op'.kind = "click")
            => /\ state'.currentStep = state.currentStep + 1
               /\ Len(timers') = Len(timers)
               /\ timers'[Len(timers')] = Timer("settle", SettleDelay)
               /\ document'.listeners = document.listeners
       /\ \A j \in 0..(StepCount - 1) :
            (emitted' # <<>> /\ emitted'[1].name = "stepChange" /\ emitted'[1].toStep = j)
                => document'.listeners =
                      IF config.steps[j + 1].action = "click"
                      THEN [document.listeners EXCEPT ![config.steps[j + 1].target] = @ + 1]
                      ELSE document.listeners]_vars

\* the single listener of the click step has fired: it is detached and one click
\* timer is pending
C28_Witness ==
    /\ op.name = "click" /\ op.kind = "#b" /\ op.active
    /\ op.pending = 0
    /\ document.listeners["#b"] = 0
    /\ timers = <<Timer("click", ClickDelay)>>

\* the click timer has run nextStep()
C28_WitnessAdvanced ==
    /\ op.name = "timer" /\ op.kind = "click" /\ op.active
    /\ state.currentStep = op.index + 1
    /\ timers = <<Timer("settle", SettleDelay)>>

\* an observe step has been rendered and its target carries no listener
C28_WitnessObserve ==
    /\ Has("stepChange") /\ emitted[1].step.action = "observe"
    /\ document.listeners[emitted[1].step.target] = 0
    /\ isActive

\* two listeners attached by two renderings of the click step have both fired
C28_WitnessTwoListeners ==
    /\ op.name = "click" /\ op.pending = 0
    /\ timers = ClickTimers(2)
    /\ document.listeners[op.kind] = 0

\* the step on screen has highlight = false
PlainStepRendered ==
    \E j \in 0..(StepCount - 1) :
        Rendered(state, emitted, j) /\ ~config.steps[j + 1].highlight

\* C29: once a step with highlight = false is rendered the backdrop has no
\* cut-out of any kind, neither a polygon clip-path nor the svg mask of a rounded
\* spotlight, whatever step was rendered before it, and no element is marked as
\* highlighted.
C29_NoHighlightNoCutout ==
    PlainStepRendered
        => /\ ~HasCutout
           /\ document.highlight = {}
           /\ state.currentHighlightedElement = "null"

\* a step with highlight = false is rendered: the polygon of the step before it
\* is gone, no element carries the highlight class and none is current
C29_ClipPathAndClassReset ==
    PlainStepRendered
        => /\ state.overlay.clipPath = "none"
           /\ state.overlay.polygon = NoCutout
           /\ document.highlight = {}
           /\ state.currentHighlightedElement = "null"

\* a step without highlight is on screen over the svg mask of the rounded
\* spotlight rendered before it
C29_MaskLeftBehind ==
    /\ PlainStepRendered
    /\ state.overlay.svg /\ state.overlay.mask # NoMask
    /\ state.overlay.clipPath = "none"

\* the placement of the step on screen
Position == state.currentStepConfig.position

\* left and top by the four placements, before they are kept within the viewport
RawLeft ==
    CASE Position \in {"top", "bottom"} ->
             TargetRect.left + Half(TargetRect.right - TargetRect.left) - Half(TooltipWidth)
      [] Position = "left" -> TargetRect.left - TooltipWidth - 20
      [] Position = "right" -> TargetRect.right + 20

RawTop ==
    CASE Position = "top" -> TargetRect.top - document.tooltipHeight - 20
      [] Position = "bottom" -> TargetRect.bottom + 20
      [] Position \in {"left", "right"} ->
             TargetRect.top + Half(TargetRect.bottom - TargetRect.top)
                 - Half(document.tooltipHeight)

\* C30: for the placements top, bottom, left and right the tooltip is put at
\* 'top': left = rect.left + rect.width/2 - tooltipWidth/2, top = rect.top -
\* tooltipHeight - 20; 'bottom': same left, top = rect.bottom + 20; 'left': left =
\* rect.left - tooltipWidth - 20, top = rect.top + rect.height/2 - tooltipHeight/2;
\* 'right': left = rect.right + 20, same top; each then taken through
\* max(20, min(value, viewport - size - 20)).
C30_TooltipPlacement ==
    (StepTooltip /\ Position \in {"top", "bottom", "left", "right"})
        => /\ state.tooltip.left =
                Max(20, Min(RawLeft, window.innerWidth - TooltipWidth - 20))
           /\ state.tooltip.top =
                Max(20, Min(RawTop, window.innerHeight - document.tooltipHeight - 20))

\* a tooltip above its target, centred on it, that needed no clamping
C30_Witness ==
    /\ op.name = "start" /\ StepTooltip /\ Position = "top"
    /\ state.tooltip.left = RawLeft /\ state.tooltip.top = RawTop
    /\ TooltipMargin < RawLeft /\ RawLeft < MaxLeft
    /\ TooltipMargin < RawTop /\ RawTop < MaxTop

\* a tooltip left of its target, centred on its height, that needed no clamping
C30_WitnessLeft ==
    /\ StepTooltip /\ Position = "left"
    /\ state.tooltip.left = RawLeft /\ state.tooltip.top = RawTop
    /\ TooltipMargin < RawLeft /\ RawLeft < MaxLeft
    /\ TooltipMargin < RawTop /\ RawTop < MaxTop

\* a tooltip below its target moved back from both far edges
C30_WitnessClamped ==
    /\ StepTooltip /\ Position = "bottom"
    /\ RawLeft > MaxLeft /\ RawTop > MaxTop /\ MaxLeft > TooltipMargin /\ MaxTop > TooltipMargin
    /\ state.tooltip.left = MaxLeft /\ state.tooltip.top = MaxTop

\* the place of a 'right' tooltip for the rect, tooltip height and viewport on
\* screen
RightPlacement ==
    clampTooltip(placeTooltip(TargetRect, "right", document.tooltipHeight),
                 document.tooltipHeight, window.innerWidth, window.innerHeight)

\* C31: a step whose position is none of top, bottom, left, right is placed
\* exactly as a 'right' step: for the same rect, tooltip size and viewport its
\* tooltip's left and top are those of position 'right'.
C31_DefaultIsRight ==
    (StepTooltip /\ Position \notin {"top", "bottom", "left", "right"})
        => /\ state.tooltip.left = RightPlacement.left
           /\ state.tooltip.top = RightPlacement.top

\* a step of another position shares the left of a 'right' step; its top is the
\* target's top, kept within the viewport
C31_DefaultAlignsTop ==
    (StepTooltip /\ Position \notin {"top", "bottom", "left", "right"})
        => /\ state.tooltip.left = RightPlacement.left
           /\ state.tooltip.top =
                Max(20, Min(TargetRect.top, window.innerHeight - document.tooltipHeight - 20))

\* a tooltip of another position sits at the target's top while a 'right' tooltip
\* would be centred on the target's height
C31_DefaultOffCentre ==
    /\ op.name = "start" /\ StepTooltip /\ Position = "center"
    /\ state.tooltip.top = TargetRect.top
    /\ RightPlacement.top # TargetRect.top

\* the calls the events em give rise to with the registrations reg: for each event
\* in turn, one call per registration of that event, in registration order
RECURSIVE HandlerCalls(_, _)
HandlerCalls(em, reg) ==
    IF em = <<>> THEN <<>>
    ELSE LET e == em[Len(em)].name
             l == IF e \in DOMAIN reg THEN reg[e] ELSE <<>>
         IN HandlerCalls(SubSeq(em, 1, Len(em) - 1), reg)
                \o [i \in 1..Len(l) |-> [event |-> e, handler |-> l[i]]]

\* C32: emit(event, payload) calls every handler registered for the event at that
\* moment, within the operation that emits, in registration order and once per
\* registration; handlers of other events are not called, and an operation that
\* emits nothing calls none.
C32_EmitCallsInOrder ==
    /\ invoked = HandlerCalls(emitted, eventListeners)
    /\ \A i \in 1..Len(invoked) :
          \E j \in 1..Len(emitted) : emitted[j].name = invoked[i].event

\* 'start' is emitted with handler 1 registered twice around handler 2, and a
\* handler registered for 'close': three calls in registration order, none for 'close'
C32_Witness ==
    /\ op.name = "start" /\ Has("start")
    /\ eventListeners["start"] = <<1, 2, 1>>
    /\ eventListeners["close"] # <<>>
    /\ invoked = <<[event |-> "start", handler |-> 1],
                   [event |-> "start", handler |-> 2],
                   [event |-> "start", handler |-> 1]>>

\* C33: the current step index is never negative, whatever the interleaving of
\* start, nextStep, previousStep, goToStep, complete, close, restart and timer
\* callbacks: getCurrentStep().index >= 0 in every reachable state.
C33_IndexNeverNegative ==
    /\ state.currentStep >= 0
    /\ getCurrentStep.index >= 0

\* previousStep() has been called on an active tour at index 0 and goToStep(-1)
\* is refused: the index is still 0
C33_Witness ==
    /\ op.name = "previousStep" /\ op.active /\ op.index = 0
    /\ getCurrentStep.index = 0
    /\ goToStep(World, -1).state.currentStep = 0

\* goToStep(-1) has been called and has left the index where it was
C33_WitnessGoToStep ==
    /\ op.name = "goToStep" /\ op.arg = -1 /\ op.index > 0
    /\ getCurrentStep.index = op.index

\* C34: the cleanup scheduled by complete() ends only the run that completed:
\* when the tour has been closed and started again since, and the cleanup timer of
\* the earlier complete() fires right after that start(), the new run is still
\* active with its overlay in the document.
C34_CleanupSparesNewRun ==
    [][(/\ op.name = "start" /\ ~op.active /\ state.isActive
        /\ op'.name = "timer" /\ op'.kind = "cleanup")
          => /\ state'.isActive
             /\ state'.overlay.exists /\ document'.overlays = 1]_vars

\* the cleanup timer of an earlier complete() has torn down a run started after it
C34_NewRunTornDown ==
    /\ op.name = "timer" /\ op.kind = "cleanup" /\ op.active
    /\ op.index = 0
    /\ ~isActive /\ ~state.overlay.exists /\ ~state.tooltip.exists
    /\ timers = <<>>

\* complete() has run in the run that is on screen: the tooltip created by
\* start() shows the completion message and cleanup() has not removed it yet
RunCompleted == state.isActive /\ state.tooltip.exists /\ state.tooltip.kind = "completion"

\* C35: within one run, from start() to the cleanup that follows, 'complete' and
\* onComplete fire at most once: once the run has completed, the settle timer of a
\* further nextStep() at or past the last step emits neither again.
C35_CompleteAtMostOnce ==
    [][(RunCompleted /\ op'.name = "timer" /\ op'.kind = "settle")
          => \A i \in 1..Len(emitted') :
                emitted'[i].name \notin {"complete", "onComplete"}]_vars

\* the settle timer of a second nextStep() has completed a run that had completed
\* already: a second cleanup timer is pending
C35_CompletedTwice ==
    /\ op.name = "timer" /\ op.kind = "settle" /\ op.active
    /\ op.index > StepCount
    /\ Has("complete") /\ Has("onComplete")
    /\ timers = <<Timer("cleanup", CleanupDelay), Timer("cleanup", CleanupDelay)>>

\* C36: one click on the target of the click step on screen advances the index by
\* exactly one, also when that step has been rendered more than once before the
\* click: the click schedules exactly one nextStep().
C36_ClickAdvancesOnce ==
    [][(/\ op'.name = "click"
        /\ state.isActive /\ state.tooltip.exists /\ state.tooltip.kind = "step"
        /\ state.currentStepConfig.action = "click"
        /\ state.currentStepConfig.target = op'.kind)
          => timers' = Append(timers, Timer("click", ClickDelay))]_vars

\* both nextStep() calls scheduled by one click on a click step rendered twice
\* have run: the index is two past the step that was clicked
C36_AdvancedByTwo ==
    /\ op.name = "timer" /\ op.kind = "click" /\ op.active
    /\ StepCount = 1
    /\ state.currentStep = 2
    /\ timers = <<Timer("settle", SettleDelay), Timer("settle", SettleDelay)>>

\* C37: nextStep() on an instance that has never been started does not complete
\* the tour: whatever the number of calls and of timer callbacks, no 'complete'
\* event is emitted and the persisted completion flag stays absent.
C37_IdleNeverCompletes ==
    /\ ~Has("complete") /\ ~Has("onComplete")
    /\ ~isCompletedIn(localStorage, config.storageKey)

\* the settle timer of nextStep() has completed a tour that was never started
C37_CompletedUnstarted ==
    /\ op.name = "timer" /\ op.kind = "settle" /\ ~op.active
    /\ ~isActive /\ ~state.overlay.exists
    /\ Has("complete")
    /\ isCompletedIn(localStorage, config.storageKey)

\* C38: a started tour none of whose targets is in the document terminates: no
\* stepChange is ever emitted, each settle callback below the end of the list
\* moves the index on by one, the callback at the end of the list calls
\* complete() once, on a run that has not completed, and with timer callbacks
\* running fairly the started tour completes and then reaches isActive() false
\* with the completion flag persisted.
C38_MissingTargetsTerminate ==
    /\ [](~Has("stepChange") /\ ~Has("onStepChange"))
    /\ [][(op'.name = "timer" /\ op'.kind = "settle")
            => IF state.currentStep < StepCount
               THEN /\ state'.currentStep = state.currentStep + 1
                    /\ EmittedTimes(emitted', "complete") = 0
               ELSE /\ state.currentStep = StepCount
                    /\ state'.currentStep = StepCount
                    /\ ~RunCompleted
                    /\ EmittedTimes(emitted', "complete") = 1
                    /\ EmittedTimes(emitted', "onComplete") = 1]_vars
    /\ (StartRan /\ ~op.active) ~> Has("complete")
    /\ Has("complete")
          ~> (~isActive /\ isCompletedIn(localStorage, config.storageKey))

\* the cleanup timer has ended a tour of MaxSteps missing targets: the index is
\* at the end of the list, the tour inactive and the flag persisted
C38_Witness ==
    /\ op.name = "timer" /\ op.kind = "cleanup" /\ op.active
    /\ StepCount = MaxSteps /\ state.currentStep = StepCount
    /\ document.elements = {}
    /\ ~isActive /\ isCompletedIn(localStorage, config.storageKey)
    /\ timers = <<>>

\* the step showStep has just rendered offers a way on: a Next or a Skip button
\* in its tooltip, or a click listener on its target
WayOn(j) ==
    \/ state.tooltip.next
    \/ state.tooltip.skip
    \/ document.listeners[config.steps[j + 1].target] > 0

\* the last step of the list, to be observed and not skipable
DeadEnd(j) ==
    /\ j = StepCount - 1
    /\ config.steps[j + 1].action = "observe"
    /\ ~config.steps[j + 1].skipable

C39_WitnessClickOnly ==
    /\ \E j \in 0..(StepCount - 1) :
          /\ Rendered(state, emitted, j)
          /\ config.steps[j + 1].action = "click" /\ ~config.steps[j + 1].skipable
          /\ document.listeners[config.steps[j + 1].target] = 1
    /\ ~state.tooltip.next /\ ~state.tooltip.skip

\* C40: the cut-out is well-formed for every target rect, rects lying wholly
\* outside the viewport included: x1 <= x2 and y1 <= y2, so that the width, the
\* height and the clamped radius min(width/2, height/2, radius) of the rounded mask
\* are never negative.
C40_CutoutWellFormed ==
    HasCutout
        => /\ Cutout.x1 <= Cutout.x2
           /\ Cutout.y1 <= Cutout.y2
           /\ state.overlay.svg
                => /\ state.overlay.mask.width >= 0
                   /\ state.overlay.mask.height >= 0
                   /\ state.overlay.mask.rx >= 0

\* a target wholly left of the viewport has a rounded mask of negative width and
\* negative radius
C40_InvertedCutout ==
    /\ op.name = "start" /\ state.overlay.svg
    /\ TargetRect.right + PaddingInForce < 0
    /\ state.overlay.mask.x = 0
    /\ state.overlay.mask.width = TargetRect.right + PaddingInForce
    /\ state.overlay.mask.rx < 0

\* the cut-out is well-formed whenever the padded rect meets the viewport
C40_WellFormedInsideViewport ==
    (/\ HasCutout
     /\ TargetRect.right + PaddingInForce >= 0
     /\ TargetRect.bottom + PaddingInForce >= 0
     /\ TargetRect.left - PaddingInForce <= window.innerWidth
     /\ TargetRect.top - PaddingInForce <= window.innerHeight)
        => /\ Cutout.x1 <= Cutout.x2
           /\ Cutout.y1 <= Cutout.y2

====
